---- MODULE Spec2Model ----
(***************************************************************************)
(* A model of src/rosa/tools/ros1.py: the ROS1 tool functions of ROSA.      *)
(* Strings are sequences of one-character strings, so that startswith,     *)
(* replace, sorting and regular-expression matching are computed the way   *)
(* the Python code computes them.                                          *)
(***************************************************************************)
EXTENDS Integers, Sequences, FiniteSets, TLC

VARIABLES
    publishers,   \* getSystemState()[0] / get_topic_list()[0]: <<topic, nodes>> entries
    subscribers,  \* getSystemState()[1] / get_topic_list()[1]: <<topic, nodes>> entries
    node_names,   \* rosnode.get_node_names()
    services,     \* rosservice.get_service_list(): the service names
    param_store,  \* the parameter server: a sequence of <<key, value>> entries
    packages,     \* rospkg.RosPack().list()
    log_files,    \* the log directory: a sequence of <<name, size>> entries
    call,         \* the last tool call: its name and arguments
    locals,       \* local variables of the last call that the properties refer to
    ret           \* what the last call returned, or that it raised

vars == <<publishers, subscribers, node_names, services, param_store, packages, log_files,
          call, locals, ret>>

env == <<publishers, subscribers, node_names, services, param_store, packages, log_files>>

(***************************************************************************)
(* Python strings                                                          *)
(***************************************************************************)

\* The characters of the model in code-point order (str comparison order).
Alphabet ==
    <<" ", "'", "(", "*", ".", "/", "0", "1", "2", "3", "4", "5", "6", "7", "8",
      "9", "T", "_", "a", "b", "c", "d", "e", "f", "g", "h", "i", "j", "k", "l",
      "m", "n", "o", "p", "q", "r", "s", "t", "u", "v", "w", "x", "y", "z">>

Ord(c) == CHOOSE i \in 1..Len(Alphabet) : Alphabet[i] = c

Drop(s, n) == SubSeq(s, n + 1, Len(s))

\* str.startswith
StartsWith(s, p) == Len(p) <= Len(s) /\ SubSeq(s, 1, Len(p)) = p

\* str.endswith
EndsWith(s, p) == Len(p) <= Len(s) /\ SubSeq(s, Len(s) - Len(p) + 1, Len(s)) = p

\* sub in s
Contains(s, sub) == \E i \in 0..(Len(s) - Len(sub)) : SubSeq(s, i + 1, i + Len(sub)) = sub

\* str.replace(old, new): non-overlapping occurrences, left to right
RECURSIVE Replace(_, _, _)
Replace(s, old, new) ==
    IF Len(s) < Len(old) THEN s
    ELSE IF StartsWith(s, old) THEN new \o Replace(Drop(s, Len(old)), old, new)
    ELSE <<Head(s)>> \o Replace(Tail(s), old, new)

\* s < t for str
RECURSIVE StrLess(_, _)
StrLess(s, t) ==
    IF t = <<>> THEN FALSE
    ELSE IF s = <<>> THEN TRUE
    ELSE IF Head(s) = Head(t) THEN StrLess(Tail(s), Tail(t))
    ELSE Ord(Head(s)) < Ord(Head(t))

\* sorted(list) for a list of str: stable, ascending
RECURSIVE InsertSorted(_, _)
InsertSorted(x, sorted) ==
    IF sorted = <<>> THEN <<x>>
    ELSE IF StrLess(x, Head(sorted)) THEN <<x>> \o sorted
    ELSE <<Head(sorted)>> \o InsertSorted(x, Tail(sorted))

RECURSIVE Sorted(_)
Sorted(list) ==
    IF list = <<>> THEN <<>>
    ELSE InsertSorted(list[Len(list)], Sorted(SubSeq(list, 1, Len(list) - 1)))

Range(s) == {s[i] : i \in 1..Len(s)}

\* the elements of a list, each once, in the order of first occurrence
RECURSIVE Distinct(_)
Distinct(list) ==
    IF list = <<>> THEN <<>>
    ELSE LET rest == Distinct(SubSeq(list, 1, Len(list) - 1))
             last == list[Len(list)]
         IN  IF last \in Range(rest) THEN rest ELSE Append(rest, last)

\* sorted(list(set(list)))
RECURSIVE SortedSet(_)
SortedSet(S) ==
    IF S = {} THEN <<>>
    ELSE LET m == CHOOSE x \in S : \A y \in S : x = y \/ StrLess(x, y)
         IN  <<m>> \o SortedSet(S \ {m})

\* list(map(f, list))
Firsts(pairs) == [i \in 1..Len(pairs) |-> pairs[i][1]]

(***************************************************************************)
(* The regex module: patterns are strings over literals, "." and "x*".      *)
(* An unbalanced "(" makes regex.match raise regex.error.                   *)
(***************************************************************************)

RegexValid(p) == \A i \in 1..Len(p) : p[i] # "("

CharMatches(pc, c) == pc = "." \/ pc = c

\* regex.match(p, s) is not None: p matches a prefix of s
RECURSIVE RegexMatch(_, _)
RegexMatch(p, s) ==
    IF p = <<>> THEN TRUE
    ELSE IF Len(p) >= 2 /\ p[2] = "*"
         THEN \E k \in 0..Len(s) :
                 /\ \A i \in 1..k : CharMatches(p[1], s[i])
                 /\ RegexMatch(Drop(p, 2), Drop(s, k))
    ELSE /\ s # <<>>
         /\ CharMatches(p[1], s[1])
         /\ RegexMatch(Tail(p), Tail(s))

DotStar == <<".", "*">>

\* The text of the regex.error raised for an unbalanced "(".
RegexError == "missing )"

\* any(regex.match(f".*{pattern}", x) for pattern in blacklist), evaluated
\* left to right: "hit" at the first matching pattern, "raise" when an invalid
\* pattern is compiled before any pattern matched, "miss" otherwise.
RECURSIVE AnyMatch(_, _)
AnyMatch(blacklist, x) ==
    IF blacklist = <<>> THEN "miss"
    ELSE IF ~RegexValid(Head(blacklist)) THEN "raise"
    ELSE IF RegexMatch(DotStar \o Head(blacklist), x) THEN "hit"
    ELSE AnyMatch(Tail(blacklist), x)

\* a blacklist pass that blanks the entries it should drop
BlacklistFilter_Blanks(entries, blacklist) ==
    [i \in 1..Len(entries) |->
        IF AnyMatch(blacklist, entries[i]) = "hit" THEN <<>> ELSE entries[i]]

\* list(filter(lambda x: not any(regex.match(f".*{pattern}", x) for pattern in
\* blacklist), entries)): the blacklist pass of get_entities, rosservice_list,
\* rosparam_list, rospkg_list and roslog_list.
BlacklistFilter(entries, blacklist) ==
    SelectSeq(entries, LAMBDA x : AnyMatch(blacklist, x) # "hit")

BlacklistRaises(entries, blacklist) ==
    \E i \in 1..Len(entries) : AnyMatch(blacklist, entries[i]) = "raise"

\* list(filter(lambda x: regex.match(f".*{pattern}", x), entries))
PatternFilter(entries, pattern) ==
    SelectSeq(entries, LAMBDA x : RegexMatch(DotStar \o pattern, x))

PatternRaises(entries, pattern) == entries # <<>> /\ ~RegexValid(pattern)

(***************************************************************************)
(* String literals of the source                                           *)
(***************************************************************************)

\* "topic"
TOPIC_STR ==
    <<"t", "o", "p", "i", "c">>

\* "node"
NODE_STR ==
    <<"n", "o", "d", "e">>

\* "There are currently no "
MSG_HEAD ==
    <<"T", "h", "e", "r", "e", " ", "a", "r", "e", " ", "c", "u", "r", "r", "e",
    "n", "t", "l", "y", " ", "n", "o", " ">>

\* "s available in the system."
MSG_IN_SYSTEM ==
    <<"s", " ", "a", "v", "a", "i", "l", "a", "b", "l", "e", " ", "i", "n", " ",
    "t", "h", "e", " ", "s", "y", "s", "t", "e", "m", ".">>

\* "s available using the '"
MSG_USING ==
    <<"s", " ", "a", "v", "a", "i", "l", "a", "b", "l", "e", " ", "u", "s", "i",
    "n", "g", " ", "t", "h", "e", " ", "'">>

\* "' namespace."
MSG_NAMESPACE ==
    <<"'", " ", "n", "a", "m", "e", "s", "p", "a", "c", "e", ".">>

\* "s available matching the specified pattern."
MSG_MATCHING ==
    <<"s", " ", "a", "v", "a", "i", "l", "a", "b", "l", "e", " ", "m", "a", "t",
    "c", "h", "i", "n", "g", " ", "t", "h", "e", " ", "s", "p", "e", "c", "i", "f",
    "i", "e", "d", " ", "p", "a", "t", "t", "e", "r", "n", ".">>


(***************************************************************************)
(* Failures of the underlying middleware calls                             *)
(***************************************************************************)

\* The text of the exception a failing registry, parameter-store,
\* package-index or filesystem call raises.
CallError == "unable to communicate with master"

\* The text of the TypeError of iterating None.
NoneTypeError == "'NoneType' object is not iterable"

Returned(fields) == [raised |-> FALSE, value |-> fields]

Raised(text) == [raised |-> TRUE, exc |-> text]

(***************************************************************************)
(* Tool calls are synchronous and one at a time: a tool is called when no   *)
(* result is pending, and its result is then handed to the caller.          *)
(***************************************************************************)

Idle == ret.kind = "none"

Deliver ==
    /\ ret.kind # "none"
    /\ call' = [tool |-> "none"]
    /\ locals' = [stage |-> "none"]
    /\ ret' = [kind |-> "none"]
    /\ UNCHANGED env

(***************************************************************************)
(* get_entities                                                            *)
(***************************************************************************)

TypeStr(type) == IF type = "topic" THEN TOPIC_STR ELSE NODE_STR

\* f"There are currently no {type}s available in the system."
NoneInSystemMsg(type) ==
    MSG_HEAD \o TypeStr(type) \o MSG_IN_SYSTEM

\* f"There are currently no {type}s available using the '{namespace}' namespace."
NoneInNamespaceMsg(type, namespace) ==
    MSG_HEAD \o TypeStr(type) \o MSG_USING \o namespace \o MSG_NAMESPACE

\* f"There are currently no {type}s available matching the specified pattern."
NoneMatchingMsg(type) ==
    MSG_HEAD \o TypeStr(type) \o MSG_MATCHING

\* entities as first retrieved from the registry
RegistryEntities(type) ==
    IF type = "topic"
    THEN LET pub == Firsts(publishers)
             sub == Firsts(subscribers)
         IN  SortedSet(Range(pub \o sub))
    ELSE IF type = "node" THEN node_names
    ELSE <<>>

\* entities after the namespace stage
NamespaceStage(entities, namespace) ==
    IF namespace # <<>>
    THEN SelectSeq(entities, LAMBDA x : StartsWith(x, namespace \o <<"/">>))
    ELSE entities

\* entities after the pattern stage
PatternStage(entities, pattern) ==
    IF pattern # <<>> THEN PatternFilter(entities, pattern) ELSE entities

\* the substitution of an explanatory string for an empty stage
Substitute(type, namespace, total, in_namespace, match_pattern, entities) ==
    IF total = 0 THEN <<NoneInSystemMsg(type)>>
    ELSE IF in_namespace = 0 THEN <<NoneInNamespaceMsg(type, namespace)>>
    ELSE IF match_pattern = 0 THEN <<NoneMatchingMsg(type)>>
    ELSE entities

\* the blacklist stage
BlacklistStage(entities, blacklist) ==
    IF blacklist # <<>> THEN BlacklistFilter(entities, blacklist) ELSE entities

\* get_entities with the pattern filter run on the unscoped list
EntityStages_PatternOnAll(type, pattern, namespace) ==
    LET all == RegistryEntities(type)
    IN  [all |-> all, in_ns |-> NamespaceStage(all, namespace),
         matching |-> PatternStage(all, pattern)]

\* the lists of the three counted stages: all entities, those in the
\* namespace, and of these the ones matching the pattern
EntityStages(type, pattern, namespace) ==
    LET all == RegistryEntities(type)
        in_ns == NamespaceStage(all, namespace)
    IN  [all |-> all, in_ns |-> in_ns, matching |-> PatternStage(in_ns, pattern)]

\* get_entities(type, pattern, namespace, blacklist); registry_fails says
\* whether the registry query raises. None and "" (None and []) are both the
\* empty sequence: the code tests the arguments for truth only.
get_entities(type, pattern, namespace, blacklist, registry_fails) ==
    LET stages == EntityStages(type, pattern, namespace)
        total == Len(stages.all)
        in_namespace == Len(stages.in_ns)
        match_pattern == Len(stages.matching)
        shown == Substitute(type, namespace, total, in_namespace, match_pattern,
                            stages.matching)
        kept == BlacklistStage(shown, blacklist)
    IN  IF registry_fails THEN Raised(CallError)
        ELSE IF pattern # <<>> /\ PatternRaises(stages.in_ns, pattern)
        THEN Raised(RegexError)
        ELSE IF blacklist # <<>> /\ BlacklistRaises(shown, blacklist)
        THEN Raised(RegexError)
        ELSE Returned([total |-> total, in_namespace |-> in_namespace,
                       match_pattern |-> match_pattern, entities |-> Sorted(kept),
                       before_blacklist |-> shown, after_blacklist |-> kept])

\* rostopic_list and rosnode_list: the payload built from get_entities
EntityListing(type, failure, pattern, namespace, blacklist, registry_fails) ==
    LET r == get_entities(type, pattern, namespace, blacklist, registry_fails)
    IN  IF r.raised
        THEN [kind |-> "error", prefix |-> failure, text |-> r.exc]
        ELSE [kind |-> "ok",
              namespace |-> IF namespace # <<>> THEN namespace ELSE <<"/">>,
              pattern |-> IF pattern # <<>> THEN pattern ELSE DotStar,
              total |-> r.value.total,
              in_namespace |-> r.value.in_namespace,
              match_pattern |-> r.value.match_pattern,
              names |-> r.value.entities]

EntityLocals(type, pattern, namespace, blacklist, registry_fails) ==
    LET r == get_entities(type, pattern, namespace, blacklist, registry_fails)
    IN  IF r.raised THEN [stage |-> "raised"]
        ELSE [stage |-> "done",
              blacklisted |-> blacklist # <<>>,
              before_blacklist |-> r.value.before_blacklist,
              after_blacklist |-> r.value.after_blacklist]

rostopic_list(pattern, namespace, blacklist, registry_fails) ==
    /\ Idle
    /\ call' = [tool |-> "rostopic_list", type |-> "topic", pattern |-> pattern,
                namespace |-> namespace, blacklist |-> blacklist,
                fails |-> registry_fails]
    /\ ret' = EntityListing("topic", "Failed to get ROS topics: ", pattern, namespace,
                            blacklist, registry_fails)
    /\ locals' = EntityLocals("topic", pattern, namespace, blacklist, registry_fails)
    /\ UNCHANGED env

rosnode_list(pattern, namespace, blacklist, registry_fails) ==
    /\ Idle
    /\ call' = [tool |-> "rosnode_list", type |-> "node", pattern |-> pattern,
                namespace |-> namespace, blacklist |-> blacklist,
                fails |-> registry_fails]
    /\ ret' = EntityListing("node", "Failed to get ROS nodes: ", pattern, namespace,
                            blacklist, registry_fails)
    /\ locals' = EntityLocals("node", pattern, namespace, blacklist, registry_fails)
    /\ UNCHANGED env

(***************************************************************************)
(* rosgraph_get                                                            *)
(***************************************************************************)

\* A dict is a sequence of <<key, value>> pairs in insertion order.
HasKey(d, key) == \E i \in 1..Len(d) : d[i][1] = key

Lookup(d, key) == d[CHOOSE i \in 1..Len(d) : d[i][1] = key][2]

Keys(d) == {d[i][1] : i \in 1..Len(d)}

\* if key in d: d[key].append(node) else: d[key] = [node]
RECURSIVE MapAppend(_, _, _)
MapAppend(d, key, node) ==
    IF d = <<>> THEN << <<key, <<node>>>> >>
    ELSE IF d[1][1] = key THEN << <<key, Append(d[1][2], node)>> >> \o Tail(d)
    ELSE <<d[1]>> \o MapAppend(Tail(d), key, node)

\* the namespace test of the two loops over the system state
InNamespace(node, namespace) == ~(namespace # <<>> /\ ~StartsWith(node, namespace))

\* for node in entry[1]: the inner loop of the map construction
RECURSIVE AddNodes(_, _, _, _)
AddNodes(d, topic, nodes, namespace) ==
    IF nodes = <<>> THEN d
    ELSE AddNodes(IF InNamespace(Head(nodes), namespace)
                  THEN MapAppend(d, topic, Head(nodes)) ELSE d,
                  topic, Tail(nodes), namespace)

\* for entry in entries: the outer loop of the map construction
RECURSIVE BuildTopicMap(_, _, _)
BuildTopicMap(d, entries, namespace) ==
    IF entries = <<>> THEN d
    ELSE BuildTopicMap(AddNodes(d, Head(entries)[1], Head(entries)[2], namespace),
                       Tail(entries), namespace)

\* for pub in pubs: for sub in subs: graph.append((pub, topic, sub))
TopicTriples(topic, pubs, subs) ==
    [i \in 1..(Len(pubs) * Len(subs)) |->
        <<pubs[((i - 1) \div Len(subs)) + 1], topic, subs[((i - 1) % Len(subs)) + 1]>>]

TopicPasses(topic, topic_pattern) ==
    ~(topic_pattern # <<>> /\ ~RegexMatch(topic_pattern, topic))

\* "Convert the maps to a graph"
RECURSIVE JoinMaps(_, _, _)
JoinMaps(pub_map, sub_map, topic_pattern) ==
    IF pub_map = <<>> THEN <<>>
    ELSE LET topic == pub_map[1][1]
             pubs == pub_map[1][2]
         IN  (IF HasKey(sub_map, topic) /\ TopicPasses(topic, topic_pattern)
              THEN TopicTriples(topic, pubs, Lookup(sub_map, topic))
              ELSE <<>>)
             \o JoinMaps(Tail(pub_map), sub_map, topic_pattern)

\* the topic pattern is compiled when the innermost loop body first runs
JoinRaises(pub_map, sub_map, topic_pattern) ==
    /\ topic_pattern # <<>>
    /\ ~RegexValid(topic_pattern)
    /\ \E i \in 1..Len(pub_map) : HasKey(sub_map, pub_map[i][1])

\* any(regex.match(f".*{word}.*", entry) for word in blacklist for entry in x)
RECURSIVE TripleAnyMatch(_, _)
TripleAnyMatch(blacklist, x) ==
    IF blacklist = <<>> THEN "miss"
    ELSE IF ~RegexValid(Head(blacklist)) THEN "raise"
    ELSE IF \E i \in 1..Len(x) : RegexMatch(DotStar \o Head(blacklist) \o DotStar, x[i])
         THEN "hit"
    ELSE TripleAnyMatch(Tail(blacklist), x)

\* "Filter out any blacklisted entries"
GraphBlacklistFilter(graph, blacklist) ==
    SelectSeq(graph, LAMBDA x : TripleAnyMatch(blacklist, x) # "hit")

GraphBlacklistRaises(graph, blacklist) ==
    \E i \in 1..Len(graph) : TripleAnyMatch(blacklist, graph[i]) = "raise"

\* "Remove any triple that does not have a publisher or subscriber that
\* contains the node pattern"
NodePatternFilter(graph, node_pattern) ==
    IF node_pattern # <<>>
    THEN SelectSeq(graph, LAMBDA x : \/ RegexMatch(node_pattern, x[1])
                                     \/ RegexMatch(node_pattern, x[3]))
    ELSE graph

NodePatternRaises(graph, node_pattern) ==
    node_pattern # <<>> /\ graph # <<>> /\ ~RegexValid(node_pattern)

\* the self-connection filter comparing the publisher with the topic
SelfConnectionFilter_WrongField(graph, exclude_self_connections) ==
    IF exclude_self_connections
    THEN SelectSeq(graph, LAMBDA x : x[1] # x[2])
    ELSE graph

SelfConnectionFilter(graph, exclude_self_connections) ==
    IF exclude_self_connections
    THEN SelectSeq(graph, LAMBDA x : x[1] # x[3])
    ELSE graph

max_render_size == 50

\* the success payload with the warning attached from the threshold on
GraphResponse_WarnAtThreshold(graph) ==
    [kind |-> "ok",
     node_count |-> Cardinality({graph[i][1] : i \in 1..Len(graph)}
                                \cup {graph[i][3] : i \in 1..Len(graph)}),
     topic_count |-> Cardinality({graph[i][2] : i \in 1..Len(graph)}),
     total_connections |-> Len(graph),
     graph |-> graph,
     has_warning |-> Len(graph) >= max_render_size]

\* the success payload
GraphResponse(graph) ==
    [kind |-> "ok",
     node_count |-> Cardinality({graph[i][1] : i \in 1..Len(graph)}
                                \cup {graph[i][3] : i \in 1..Len(graph)}),
     topic_count |-> Cardinality({graph[i][2] : i \in 1..Len(graph)}),
     total_connections |-> Len(graph),
     graph |-> graph,
     has_warning |-> Len(graph) > max_render_size]

\* rosgraph_get without the test for an empty graph
GraphResult_NoEmptyCheck(graph, blacklist) == GraphResponse(graph)

\* the error payload of an empty graph, or the success payload
GraphResult(graph, blacklist) ==
    IF graph = <<>>
    THEN [kind |-> "error",
          prefix |-> "No results found for the specified parameters. Note that the following have been excluded: ",
          excluded |-> blacklist]
    ELSE GraphResponse(graph)

\* The run of rosgraph_get: what it returns (or that it raises) and the
\* locals it computed on the way. None and "" are both the empty sequence.
GraphRun(namespace, node_pattern, topic_pattern, blacklist_arg, exclude_self_connections, state_fails) ==
    LET topic_pub_map == BuildTopicMap(<<>>, publishers, namespace)
        topic_sub_map == BuildTopicMap(<<>>, subscribers, namespace)
        joined == JoinMaps(topic_pub_map, topic_sub_map, topic_pattern)
        blacklist == blacklist_arg
        unlisted == GraphBlacklistFilter(joined, blacklist)
        named == NodePatternFilter(unlisted, node_pattern)
        graph == SelfConnectionFilter(named, exclude_self_connections)
    IN  IF state_fails
        THEN [ret |-> [kind |-> "error", prefix |-> "Failed to get ROS graph: ",
                       text |-> CallError],
              locals |-> [stage |-> "state"]]
        ELSE IF \/ JoinRaises(topic_pub_map, topic_sub_map, topic_pattern)
                \/ GraphBlacklistRaises(joined, blacklist)
                \/ NodePatternRaises(unlisted, node_pattern)
        THEN [ret |-> [kind |-> "raised", text |-> RegexError],
              locals |-> [stage |-> "filters"]]
        ELSE [ret |-> GraphResult(graph, blacklist),
              locals |-> [stage |-> "done",
                          topic_pub_map |-> topic_pub_map,
                          topic_sub_map |-> topic_sub_map,
                          joined |-> joined,
                          before_blacklist |-> joined,
                          after_blacklist |-> unlisted,
                          graph |-> graph]]

rosgraph_get(namespace, node_pattern, topic_pattern, blacklist, exclude_self_connections, state_fails) ==
    LET run == GraphRun(namespace, node_pattern, topic_pattern, blacklist,
                        exclude_self_connections, state_fails)
    IN  /\ Idle
        /\ call' = [tool |-> "rosgraph_get", namespace |-> namespace,
                    node_pattern |-> node_pattern, topic_pattern |-> topic_pattern,
                    blacklist |-> blacklist,
                    exclude_self_connections |-> exclude_self_connections,
                    fails |-> state_fails]
        /\ ret' = run.ret
        /\ locals' = run.locals
        /\ UNCHANGED env

(***************************************************************************)
(* rospkg_list                                                             *)
(***************************************************************************)

\* The run of rospkg_list; index_fails says whether RosPack().list() raises.
\* The function has no try block: a failure or a regex.error propagates.
PkgRun(package_pattern, ignore_msgs, blacklist, index_fails) ==
    LET count == Len(packages)
        kept == IF ignore_msgs
                THEN SelectSeq(packages, LAMBDA x : ~EndsWith(x, <<"m", "s", "g", "s">>))
                ELSE packages
        msg_pkg_count == count - Len(kept)
        filtered == package_pattern # <<>> /\ package_pattern # DotStar
        matching == IF filtered THEN PatternFilter(kept, package_pattern) ELSE kept
        unlisted == BlacklistStage(matching, blacklist)
        matches == Len(unlisted)
    IN  IF index_fails
        THEN [ret |-> [kind |-> "raised", text |-> CallError],
              locals |-> [stage |-> "index"]]
        ELSE IF \/ filtered /\ PatternRaises(kept, package_pattern)
                \/ blacklist # <<>> /\ BlacklistRaises(matching, blacklist)
        THEN [ret |-> [kind |-> "raised", text |-> RegexError],
              locals |-> [stage |-> "filters"]]
        ELSE [ret |-> [kind |-> "ok", total |-> count, msg_pkg_count |-> msg_pkg_count,
                       match_pattern |-> matches, packages |-> Sorted(unlisted)],
              locals |-> [stage |-> "done",
                          blacklisted |-> blacklist # <<>>,
                          before_blacklist |-> matching,
                          after_blacklist |-> unlisted]]

rospkg_list(package_pattern, ignore_msgs, blacklist, index_fails) ==
    LET run == PkgRun(package_pattern, ignore_msgs, blacklist, index_fails)
    IN  /\ Idle
        /\ call' = [tool |-> "rospkg_list", package_pattern |-> package_pattern,
                    ignore_msgs |-> ignore_msgs, blacklist |-> blacklist,
                    fails |-> index_fails]
        /\ ret' = run.ret
        /\ locals' = run.locals
        /\ UNCHANGED env

(***************************************************************************)
(* rosparam_list, rosparam_get, rosparam_set                               *)
(***************************************************************************)

\* rosparam.list_params(namespace): the keys of the store under the namespace
ListParams(namespace) ==
    LET ns == IF EndsWith(namespace, <<"/">>) THEN namespace ELSE namespace \o <<"/">>
        keys == Firsts(param_store)
    IN  SelectSeq(keys, LAMBDA k : StartsWith(k, ns))

\* The run of rosparam_list: the whole body is in a try block.
ParamListRun(namespace, blacklist, store_fails) ==
    LET params == ListParams(namespace)
        unlisted == BlacklistStage(params, blacklist)
        failure == "Failed to get ROS parameters: "
    IN  IF store_fails
        THEN [ret |-> [kind |-> "error", prefix |-> failure, text |-> CallError],
              locals |-> [stage |-> "store"]]
        ELSE IF blacklist # <<>> /\ BlacklistRaises(params, blacklist)
        THEN [ret |-> [kind |-> "error", prefix |-> failure, text |-> RegexError],
              locals |-> [stage |-> "filters"]]
        ELSE [ret |-> [kind |-> "ok", namespace |-> namespace, total |-> Len(unlisted),
                       ros_params |-> unlisted],
              locals |-> [stage |-> "done",
                          blacklisted |-> blacklist # <<>>,
                          before_blacklist |-> params,
                          after_blacklist |-> unlisted]]

rosparam_list(namespace, blacklist, store_fails) ==
    LET run == ParamListRun(namespace, blacklist, store_fails)
    IN  /\ Idle
        /\ call' = [tool |-> "rosparam_list", namespace |-> namespace,
                    blacklist |-> blacklist, fails |-> store_fails]
        /\ ret' = run.ret
        /\ locals' = run.locals
        /\ UNCHANGED env

\* d[key] = value
RECURSIVE MapPut(_, _, _)
MapPut(d, key, value) ==
    IF d = <<>> THEN << <<key, value>> >>
    ELSE IF d[1][1] = key THEN << <<key, value>> >> \o Tail(d)
    ELSE <<d[1]>> \o MapPut(Tail(d), key, value)

\* The text of the KeyError of rosparam.get_param for a key that is not set.
KeyNotSet == "parameter is not set"

\* for param in params: values[param] = rosparam.get_param(param); no try
\* block, so the first failing read aborts the batch.
RECURSIVE GetParams(_, _, _)
GetParams(values, params, store_fails) ==
    IF params = <<>> THEN Returned(values)
    ELSE IF store_fails THEN Raised(CallError)
    ELSE IF ~HasKey(param_store, Head(params)) THEN Raised(KeyNotSet)
    ELSE GetParams(MapPut(values, Head(params), Lookup(param_store, Head(params))),
                   Tail(params), store_fails)

rosparam_get(params, store_fails) ==
    LET r == GetParams(<<>>, params, store_fails)
    IN  /\ Idle
        /\ call' = [tool |-> "rosparam_get", params |-> params, fails |-> store_fails]
        /\ ret' = IF r.raised THEN [kind |-> "raised", text |-> r.exc]
                  ELSE [kind |-> "ok", values |-> r.value]
        /\ locals' = [stage |-> "done"]
        /\ UNCHANGED env

\* "/rosa"
ROSA_PREFIX == <<"/", "r", "o", "s", "a">>

\* the key rosparam_set writes to
TargetKey(param, is_rosa_param) ==
    IF is_rosa_param /\ ~StartsWith(param, ROSA_PREFIX)
    THEN Replace(ROSA_PREFIX \o <<"/">> \o param, <<"/", "/">>, <<"/">>)
    ELSE param

rosparam_set(param, value, is_rosa_param, store_fails) ==
    LET key == TargetKey(param, is_rosa_param)
    IN  /\ Idle
        /\ call' = [tool |-> "rosparam_set", param |-> param, value |-> value,
                    is_rosa_param |-> is_rosa_param, fails |-> store_fails]
        /\ locals' = [stage |-> "done", param |-> key]
        /\ IF store_fails
           THEN /\ ret' = [kind |-> "failed", prefix |-> "Failed to set parameter",
                           param |-> key, value |-> value, text |-> CallError]
                /\ UNCHANGED param_store
           ELSE /\ ret' = [kind |-> "set", prefix |-> "Set parameter",
                           param |-> key, value |-> value]
                /\ param_store' = MapPut(param_store, key, value)
        /\ UNCHANGED <<publishers, subscribers, node_names, services, packages,
                       log_files>>

(***************************************************************************)
(* roslog_list                                                             *)
(***************************************************************************)

\* The blacklist argument of roslog_list: None (the default) or a list.
NoBlacklist == [is_none |-> TRUE, patterns |-> <<>>]

SomeBlacklist(patterns) == [is_none |-> FALSE, patterns |-> patterns]

\* os.path.getsize(os.path.join(log_dir, log))
GetSize(log) == Lookup(log_files, log)

\* for log in logs: if size >= min_size: log_sizes[log] = size
SizeStage(logs, min_size) ==
    SelectSeq([i \in 1..Len(logs) |-> <<logs[i], GetSize(logs[i])>>],
              LAMBDA item : item[2] >= min_size)

\* sorted(log_sizes.items(), key=lambda item: item[1], reverse=True): stable
RECURSIVE InsertBySize(_, _)
InsertBySize(x, sorted) ==
    IF sorted = <<>> THEN <<x>>
    ELSE IF x[2] > Head(sorted)[2] THEN <<x>> \o sorted
    ELSE <<Head(sorted)>> \o InsertBySize(x, Tail(sorted))

RECURSIVE SortedBySize(_)
SortedBySize(items) ==
    IF items = <<>> THEN <<>>
    ELSE InsertBySize(items[Len(items)], SortedBySize(SubSeq(items, 1, Len(items) - 1)))

\* The run of roslog_list; dir_fails says whether os.listdir raises. The
\* function has no try block, and it iterates the blacklist without testing
\* it: with blacklist None the filter lambda raises TypeError on the first
\* file name.
LogRun(min_size, blacklist, dir_fails) ==
    LET logs == Firsts(log_files)
        unlisted == BlacklistFilter(logs, blacklist.patterns)
        log_sizes == SortedBySize(SizeStage(unlisted, min_size))
    IN  IF dir_fails
        THEN [ret |-> [kind |-> "raised", text |-> CallError],
              locals |-> [stage |-> "listdir"]]
        ELSE IF blacklist.is_none /\ logs # <<>>
        THEN [ret |-> [kind |-> "raised", text |-> NoneTypeError],
              locals |-> [stage |-> "filters"]]
        ELSE IF BlacklistRaises(logs, blacklist.patterns)
        THEN [ret |-> [kind |-> "raised", text |-> RegexError],
              locals |-> [stage |-> "filters"]]
        ELSE [ret |-> [kind |-> "ok", logs_with_size_in_bytes |-> log_sizes],
              locals |-> [stage |-> "done",
                          blacklisted |-> TRUE,
                          before_blacklist |-> logs,
                          after_blacklist |-> unlisted]]

default_min_size == 2048

roslog_list(min_size, blacklist, dir_fails) ==
    LET run == LogRun(min_size, blacklist, dir_fails)
    IN  /\ Idle
        /\ call' = [tool |-> "roslog_list", min_size |-> min_size,
                    blacklist_is_none |-> blacklist.is_none,
                    blacklist |-> blacklist.patterns, fails |-> dir_fails]
        /\ ret' = run.ret
        /\ locals' = run.locals
        /\ UNCHANGED env

(***************************************************************************)
(* rosservice_list                                                         *)
(***************************************************************************)

\* The text of the AttributeError (TypeError) of using a [service, [node]]
\* pair where the filters expect a str.
NotAStringError == "'list' object is not a str"

\* The function has no try block. With include_nodes the registry answers
\* [service, [node]] pairs, and the first filter that runs on a pair raises.
ServiceRun(namespace, include_nodes, regex_pattern, exclude_logging, exclude_rosapi, exclude_parameters, exclude_pattern, blacklist, registry_fails) ==
    LET listed == IF namespace # <<>>
                  THEN SelectSeq(services, LAMBDA x : StartsWith(x, namespace))
                  ELSE services
        s1 == IF exclude_logging
              THEN SelectSeq(SelectSeq(listed, LAMBDA x : ~StartsWith(x, <<"/", "r", "o", "s", "o", "u", "t">>)),
                             LAMBDA x : ~Contains(x, <<"l", "o", "g", "g", "e", "r">>))
              ELSE listed
        s2 == IF exclude_rosapi
              THEN SelectSeq(s1, LAMBDA x : ~StartsWith(x, <<"/", "r", "o", "s", "a", "p", "i">>))
              ELSE s1
        s3 == IF exclude_parameters
              THEN SelectSeq(s2, LAMBDA x : ~Contains(x, <<"p", "a", "r", "a", "m">>))
              ELSE s2
        s4 == IF exclude_pattern # <<>>
              THEN SelectSeq(s3, LAMBDA x : ~RegexMatch(DotStar \o exclude_pattern, x))
              ELSE s3
        s5 == PatternStage(s4, regex_pattern)
        s6 == BlacklistStage(s5, blacklist)
        filtering == \/ exclude_logging \/ exclude_rosapi \/ exclude_parameters
                     \/ exclude_pattern # <<>> \/ regex_pattern # <<>>
                     \/ blacklist # <<>>
    IN  IF registry_fails
        THEN [ret |-> [kind |-> "raised", text |-> CallError],
              locals |-> [stage |-> "registry"]]
        ELSE IF include_nodes
        THEN IF listed # <<>> /\ filtering
             THEN [ret |-> [kind |-> "raised", text |-> NotAStringError],
                   locals |-> [stage |-> "filters"]]
             ELSE [ret |-> [kind |-> "ok", with_nodes |-> TRUE, services |-> listed],
                   locals |-> [stage |-> "unfiltered"]]
        ELSE IF \/ exclude_pattern # <<>> /\ PatternRaises(s3, exclude_pattern)
                \/ regex_pattern # <<>> /\ PatternRaises(s4, regex_pattern)
                \/ blacklist # <<>> /\ BlacklistRaises(s5, blacklist)
        THEN [ret |-> [kind |-> "raised", text |-> RegexError],
              locals |-> [stage |-> "filters"]]
        ELSE [ret |-> [kind |-> "ok", with_nodes |-> FALSE, services |-> s6],
              locals |-> [stage |-> "done",
                          blacklisted |-> blacklist # <<>>,
                          before_blacklist |-> s5,
                          after_blacklist |-> s6]]

rosservice_list(namespace, include_nodes, regex_pattern, exclude_logging, exclude_rosapi, exclude_parameters, exclude_pattern, blacklist, registry_fails) ==
    LET run == ServiceRun(namespace, include_nodes, regex_pattern, exclude_logging,
                          exclude_rosapi, exclude_parameters, exclude_pattern,
                          blacklist, registry_fails)
    IN  /\ Idle
        /\ call' = [tool |-> "rosservice_list", namespace |-> namespace,
                    include_nodes |-> include_nodes, regex_pattern |-> regex_pattern,
                    exclude_logging |-> exclude_logging,
                    exclude_rosapi |-> exclude_rosapi,
                    exclude_parameters |-> exclude_parameters,
                    exclude_pattern |-> exclude_pattern, blacklist |-> blacklist,
                    fails |-> registry_fails]
        /\ ret' = run.ret
        /\ locals' = run.locals
        /\ UNCHANGED env

(***************************************************************************)
(* The detail tools: one registry lookup per name, no try block            *)
(***************************************************************************)

\* The text of the exception of a lookup of a name the registry does not know.
UnknownName == "unknown name"

\* for name in names: details[name] = Detail(name); the first lookup that
\* raises aborts the batch.
\* known is the set of names the lookup answers for, detail its answers.
Batch(names, known, detail, registry_fails) ==
    IF names = <<>> THEN [kind |-> "ok", details |-> <<>>]
    ELSE IF registry_fails THEN [kind |-> "raised", text |-> CallError]
    ELSE IF \E i \in 1..Len(names) : names[i] \notin known
    THEN [kind |-> "raised", text |-> UnknownName]
    ELSE [kind |-> "ok",
          details |-> LET keys == Distinct(names)
                      IN  [i \in 1..Len(keys) |-> <<keys[i], detail[keys[i]]>>]]

NodesFor(entries, topic) == IF HasKey(entries, topic) THEN Lookup(entries, topic) ELSE <<>>

\* The " * <node>" lines of the info text
Starred(nodes) == [i \in 1..Len(nodes) |-> <<" ", "*", " ">> \o nodes[i]]

\* str.strip() of the lines of the info text: leading and trailing blanks
RECURSIVE Strip(_)
Strip(line) ==
    IF line = <<>> THEN line
    ELSE IF Head(line) = " " THEN Strip(Tail(line))
    ELSE IF line[Len(line)] = " " THEN Strip(SubSeq(line, 1, Len(line) - 1))
    ELSE line

strip_star(line) == Replace(Strip(line), <<"*", " ">>, <<>>)

\* "std_msgs/String"
MSG_TYPE == <<"s", "t", "d", "_", "m", "s", "g", "s", "/", "S", "t", "r", "i", "n", "g">>

\* info_text.split("\n") of rostopic.get_info_text(topic), in the format the
\* comment of rostopic_info gives
InfoLines(topic) ==
    << <<"T", "y", "p", "e", ":", " ">> \o MSG_TYPE, <<"P", "u", "b", "l", "i", "s", "h", "e", "r", "s", ":">> >>
    \o Starred(NodesFor(publishers, topic))
    \o << <<"S", "u", "b", "s", "c", "r", "i", "b", "e", "r", "s", ":">> >>
    \o Starred(NodesFor(subscribers, topic))

\* the loop over the lines: capture is "none", "publishers" or "subscribers"
RECURSIVE ParseLines(_, _, _)
ParseLines(lines, capture, details) ==
    IF lines = <<>> THEN details
    ELSE LET line == Head(lines)
         IN  IF Contains(line, <<"P", "u", "b", "l", "i", "s", "h", "e", "r", "s", ":">>)
             THEN ParseLines(Tail(lines), "publishers", details)
             ELSE IF Contains(line, <<"S", "u", "b", "s", "c", "r", "i", "b", "e", "r", "s", ":">>)
             THEN ParseLines(Tail(lines), "subscribers", details)
             ELSE IF capture = "publishers"
             THEN ParseLines(Tail(lines), capture,
                             [details EXCEPT !.publishers = Append(@, strip_star(line))])
             ELSE IF capture = "subscribers"
             THEN ParseLines(Tail(lines), capture,
                             [details EXCEPT !.subscribers = Append(@, strip_star(line))])
             ELSE ParseLines(Tail(lines), capture, details)

\* regex.match(r"Type: (.+)", info_text): the rest of the first line
TypeOf(lines) ==
    IF lines # <<>> /\ StartsWith(lines[1], <<"T", "y", "p", "e", ":", " ">>) /\ Len(lines[1]) > Len(<<"T", "y", "p", "e", ":", " ">>)
    THEN Drop(lines[1], Len(<<"T", "y", "p", "e", ":", " ">>))
    ELSE <<>>

TopicDetails(topic) ==
    ParseLines(InfoLines(topic), "none",
               [topic |-> topic, type |-> TypeOf(InfoLines(topic)),
                publishers |-> <<>>, subscribers |-> <<>>])

KnownTopic(topic) == HasKey(publishers, topic) \/ HasKey(subscribers, topic)

rostopic_info(topics, registry_fails) ==
    /\ Idle
    /\ call' = [tool |-> "rostopic_info", names |-> topics, fails |-> registry_fails]
    /\ ret' = LET known == {n \in Range(topics) : KnownTopic(n)}
                  IN  Batch(topics, known, [n \in known |-> TopicDetails(n)], registry_fails)
    /\ locals' = [stage |-> "done"]
    /\ UNCHANGED env

\* rosnode.get_node_info_description(node): two lines of text
NodeInfoText(node) == <<"N", "o", "d", "e", " ">> \o node \o <<"\n">> \o <<"P", "i", "d", ":", " ", "1">> \o <<"\n">>

NodeDetails(node) == Replace(NodeInfoText(node), <<"\n">>, <<" ">>)

AnyName(name) == TRUE

rosnode_info(nodes, registry_fails) ==
    /\ Idle
    /\ call' = [tool |-> "rosnode_info", names |-> nodes, fails |-> registry_fails]
    /\ ret' = LET known == {n \in Range(nodes) : AnyName(n)}
                  IN  Batch(nodes, known, [n \in known |-> NodeDetails(n)], registry_fails)
    /\ locals' = [stage |-> "done"]
    /\ UNCHANGED env

KnownService(service) == service \in Range(services)

\* rosservice.get_service_headers(service, rosservice.get_service_uri(service))
ServiceHeaders(service) == [callerid |-> service, type |-> MSG_TYPE]

rosservice_info(service_names, registry_fails) ==
    /\ Idle
    /\ call' = [tool |-> "rosservice_info", names |-> service_names, fails |-> registry_fails]
    /\ ret' = LET known == {n \in Range(service_names) : KnownService(n)}
                  IN  Batch(service_names, known, [n \in known |-> ServiceHeaders(n)], registry_fails)
    /\ locals' = [stage |-> "done"]
    /\ UNCHANGED env

KnownType(type) == type = MSG_TYPE

\* rosmsg.get_msg_text(msg)
MsgText(msg) == <<"s", "t", "r", "i", "n", "g", " ", "d", "a", "t", "a">>

rosmsg_info(msg_type, registry_fails) ==
    /\ Idle
    /\ call' = [tool |-> "rosmsg_info", names |-> msg_type, fails |-> registry_fails]
    /\ ret' = LET known == {n \in Range(msg_type) : KnownType(n)}
                  IN  Batch(msg_type, known, [n \in known |-> MsgText(n)], registry_fails)
    /\ locals' = [stage |-> "done"]
    /\ UNCHANGED env

\* rosmsg.get_srv_text(srv, raw=raw)
SrvText(srv) == <<"s", "t", "r", "i", "n", "g", " ", "d", "a", "t", "a">> \o <<"\n">> \o <<"-", "-", "-">>

rossrv_info(srv_type, registry_fails) ==
    /\ Idle
    /\ call' = [tool |-> "rossrv_info", names |-> srv_type, fails |-> registry_fails]
    /\ ret' = LET known == {n \in Range(srv_type) : KnownType(n)}
                  IN  Batch(srv_type, known, [n \in known |-> SrvText(n)], registry_fails)
    /\ locals' = [stage |-> "done"]
    /\ UNCHANGED env

KnownPackage(package) == package \in Range(packages)

\* the manifest of a package: its slots and their values
Manifest(package) ==
    << <<<<"l", "i", "c", "e", "n", "s", "e">>, <<"B", "S", "D">>>>, <<<<"_", "i", "s", "_", "c", "a", "t", "k", "i", "n">>, <<"B", "S", "D">>>>, <<<<"u", "r", "l">>, <<>>>> >>

\* path, dependencies and every non-empty attribute of a public slot
PackageDetails(package) ==
    << <<<<"p", "a", "t", "h">>, <<"/", "o", "p", "t", "/", "r", "o", "s", "/">> \o package>>, <<<<"d", "e", "p", "e", "n", "d", "e", "n", "c", "i", "e", "s">>, <<>>>> >>
    \o SelectSeq(Manifest(package),
                 LAMBDA m : ~StartsWith(m[1], <<"_">>) /\ m[2] # <<>>)

rospkg_info(package_names, index_fails) ==
    /\ Idle
    /\ call' = [tool |-> "rospkg_info", names |-> package_names, fails |-> index_fails]
    /\ ret' = LET known == {n \in Range(package_names) : KnownPackage(n)}
                  IN  Batch(package_names, known, [n \in known |-> PackageDetails(n)], index_fails)
    /\ locals' = [stage |-> "done"]
    /\ UNCHANGED env

(***************************************************************************)
(* Bounded inputs                                                          *)
(***************************************************************************)

\* Longest publisher list of the first topic in a small system.
MaxPublishers == 2

\* Most publishers and subscribers of the first topic in a large system.
MaxFan == 8

\* Most packages of a package index.
MaxPackages == 2

\* Most keys the parameter store is let grow to.
MaxParams == 1

\* Most files of a log directory.
MaxLogs == 2

SeqsUpTo(S, n) == UNION {[1..k -> S] : k \in 0..n}

\* lists without repetition
DistinctSeqsUpTo(S, n) == {q \in SeqsUpTo(S, n) : Cardinality(Range(q)) = Len(q)}

TopicOne == <<"/", "a", "/", "t", "1">>
TopicTwo == <<"/", "b", "/", "t", "2">>

\* Two nodes of namespace /a and one of the sibling namespace /ab.
NodePool == {<<"/", "a", "/", "n", "1">>, <<"/", "a", "/", "n", "2">>, <<"/", "a", "b", "/", "n", "1">>}

Digits == <<"1", "2", "3", "4", "5", "6", "7", "8", "9">>

FanNode(i) == <<"/", "a", "/", "m", Digits[i]>>

FirstNodes(from, n) == [i \in 1..n |-> FanNode(from + i - 1)]

\* The registry lists only topics that have a publisher (a subscriber).
Entries(nodes_one, nodes_two) ==
    (IF nodes_one = <<>> THEN <<>> ELSE << <<TopicOne, nodes_one>> >>)
    \o (IF nodes_two = <<>> THEN <<>> ELSE << <<TopicTwo, nodes_two>> >>)

RECURSIVE NodesOf(_)
NodesOf(entries) ==
    IF entries = <<>> THEN <<>> ELSE Head(entries)[2] \o NodesOf(Tail(entries))

\* rosnode.get_node_names(): the nodes of the system state, each once
NodeNames == Distinct(NodesOf(publishers) \o NodesOf(subscribers))

NoCall ==
    /\ call = [tool |-> "none"]
    /\ locals = [stage |-> "none"]
    /\ ret = [kind |-> "none"]

SmallSystem ==
    \E p1 \in SeqsUpTo(NodePool, MaxPublishers) :
    \E s1 \in {<<>>} \cup {<<n>> : n \in NodePool} :
    \E p2 \in {<<>>, <<<<"/", "a", "/", "n", "1">>>>} :
    \E s2 \in {<<>>, <<<<"/", "a", "/", "n", "2">>>>} :
        /\ publishers = Entries(p1, p2)
        /\ subscribers = Entries(s1, s2)

LargeSystem ==
    \E k \in (MaxFan - 1)..MaxFan :
    \E j \in 0..1 :
    \E l \in 0..2 :
        /\ publishers = Entries(FirstNodes(1, k), FirstNodes(1, j))
        /\ subscribers = Entries(FirstNodes(1, MaxFan - 1), FirstNodes(2, l))

NoSystem ==
    /\ publishers = <<>>
    /\ subscribers = <<>>

PackagePool == {<<"n", "a", "v">>, <<"s", "t", "d", "_", "m", "s", "g", "s">>, <<"n", "a", "v", "_", "m", "s", "g", "s">>}

LogNames == {<<"a", ".", "l", "o", "g">>, <<"b", ".", "l", "o", "g">>, <<"c", ".", "l", "o", "g">>}

LogSizes == {1024, default_min_size, 4096}

LogDirs ==
    {d \in SeqsUpTo(LogNames \X LogSizes, MaxLogs) :
        Cardinality({d[i][1] : i \in 1..Len(d)}) = Len(d)}

Namespaces == {<<>>, <<"/">>, <<"/", "a">>}

NodePatterns == {<<>>, DotStar, <<"/", "a", "/", "n", "1">>, <<"(">>}

TopicPatterns == {DotStar, <<"/", "a">>, <<"(">>}

GraphBlacklists == {<<>>, <<<<"n", "2">>>>, <<<<"t", "1">>, <<"(">>>>}

EntityPatterns == {<<>>, <<"n", "1">>, <<"z", "z">>, <<"(">>}

EntityBlacklists == {<<>>, <<<<"n", "2">>>>, <<<<"a", "v", "a", "i", "l", "a", "b", "l", "e">>>>, <<<<"t", "1">>, <<"(">>>>}

PackagePatterns == {<<>>, DotStar, <<"n", "a", "v">>, <<"(">>}

PackageBlacklists == {<<>>, <<<<"s", "t", "d">>>>, <<<<"n", "a", "v">>, <<"(">>>>}

ParamNames == {<<"f", "o", "o">>, <<"/", "r", "o", "s", "a", "/", "x">>, <<"/", "r", "o", "s", "a", "b">>, <<"/", "/", "x">>}

ParamValues == {"1", "2"}

ParamQueries == SeqsUpTo({<<"/", "r", "o", "s", "a", "/", "f", "o", "o">>, <<"/", "r", "o", "s", "a", "b">>}, 2)

ParamNamespaces == {<<"/">>, <<"/", "r", "o", "s", "a">>}

ParamBlacklists == {<<>>, <<<<"f", "o", "o">>>>, <<<<"/", "r", "o", "s", "a", "b">>, <<"(">>>>}

MinSizes == {0, default_min_size, 4096}

LogBlacklists ==
    {NoBlacklist} \cup {SomeBlacklist(b) : b \in {<<>>, <<<<"a", ".", "l", "o", "g">>>>, <<<<"b", ".", "l", "o", "g">>, <<"(">>>>}}

ServiceNamespaces == {<<>>, <<"/", "a">>}

ServicePatterns == {<<>>, <<"s", "r", "v">>}

ServiceExcludes == {<<>>, <<"(">>}

ServiceBlacklists == {<<>>, <<<<"s", "e", "t">>>>}

TopicQueries == SeqsUpTo({TopicOne, <<"/", "n", "o", "s", "u", "c", "h">>}, 2)

NodeQueries == SeqsUpTo({<<"/", "a", "/", "n", "1">>}, 2)

ServiceQueries == SeqsUpTo({<<"/", "a", "/", "s", "r", "v">>, <<"/", "n", "o", "s", "u", "c", "h">>}, 1)

TypeQueries == SeqsUpTo({MSG_TYPE, <<"/", "n", "o", "s", "u", "c", "h">>}, 1)

PackageQueries == SeqsUpTo({<<"n", "a", "v">>, <<"/", "n", "o", "s", "u", "c", "h">>}, 1)

(***************************************************************************)
(* The tool calls                                                          *)
(***************************************************************************)

RosgraphGet ==
    \/ \E namespace \in Namespaces, node_pattern \in NodePatterns,
          topic_pattern \in TopicPatterns, blacklist \in GraphBlacklists,
          exclude_self_connections \in BOOLEAN :
          rosgraph_get(namespace, node_pattern, topic_pattern, blacklist,
                       exclude_self_connections, FALSE)
    \/ rosgraph_get(<<"/">>, DotStar, DotStar, <<>>, TRUE, TRUE)

RostopicList ==
    \/ \E pattern \in EntityPatterns, namespace \in Namespaces,
          blacklist \in EntityBlacklists :
          rostopic_list(pattern, namespace, blacklist, FALSE)
    \/ rostopic_list(<<>>, <<>>, <<>>, TRUE)

RosnodeList ==
    \/ \E pattern \in EntityPatterns, namespace \in Namespaces,
          blacklist \in EntityBlacklists :
          rosnode_list(pattern, namespace, blacklist, FALSE)
    \/ rosnode_list(<<>>, <<>>, <<>>, TRUE)

RospkgList ==
    \/ \E package_pattern \in PackagePatterns, ignore_msgs \in BOOLEAN,
          blacklist \in PackageBlacklists :
          rospkg_list(package_pattern, ignore_msgs, blacklist, FALSE)
    \/ rospkg_list(DotStar, TRUE, <<>>, TRUE)

RosparamList ==
    \/ \E namespace \in ParamNamespaces, blacklist \in ParamBlacklists :
          rosparam_list(namespace, blacklist, FALSE)
    \/ rosparam_list(<<"/">>, <<>>, TRUE)

RosparamGet ==
    \/ \E params \in ParamQueries : rosparam_get(params, FALSE)
    \/ rosparam_get(<<<<"/", "r", "o", "s", "a", "b">>>>, TRUE)

\* The store is let grow to MaxParams keys; a key it holds can always be rewritten.
RosparamSet ==
    \E param \in ParamNames, value \in ParamValues, is_rosa_param \in BOOLEAN,
       store_fails \in BOOLEAN :
        /\ \/ Len(param_store) < MaxParams
           \/ HasKey(param_store, TargetKey(param, is_rosa_param))
        /\ rosparam_set(param, value, is_rosa_param, store_fails)

RoslogList ==
    \/ \E min_size \in MinSizes, blacklist \in LogBlacklists :
          roslog_list(min_size, blacklist, FALSE)
    \/ roslog_list(default_min_size, NoBlacklist, TRUE)

RosserviceList ==
    \/ \E namespace \in ServiceNamespaces, include_nodes \in BOOLEAN,
          regex_pattern \in ServicePatterns,
          exclude_logging \in BOOLEAN, exclude_rosapi \in BOOLEAN,
          exclude_parameters \in BOOLEAN, exclude_pattern \in ServiceExcludes,
          blacklist \in ServiceBlacklists :
          rosservice_list(namespace, include_nodes, regex_pattern, exclude_logging,
                          exclude_rosapi, exclude_parameters, exclude_pattern,
                          blacklist, FALSE)
    \/ rosservice_list(<<>>, FALSE, <<>>, TRUE, TRUE, TRUE, <<>>, <<>>, TRUE)

RostopicInfo == \E topics \in TopicQueries, f \in BOOLEAN : rostopic_info(topics, f)

RosnodeInfo == \E nodes \in NodeQueries, f \in BOOLEAN : rosnode_info(nodes, f)

RosserviceInfo == \E names \in ServiceQueries, f \in BOOLEAN : rosservice_info(names, f)

RosmsgInfo == \E types \in TypeQueries, f \in BOOLEAN : rosmsg_info(types, f)

RossrvInfo == \E types \in TypeQueries, f \in BOOLEAN : rossrv_info(types, f)

RospkgInfo == \E names \in PackageQueries, f \in BOOLEAN : rospkg_info(names, f)

(***************************************************************************)
(* Specifications                                                          *)
(***************************************************************************)

\* rosgraph_get on small and large system states
InitGraph ==
    /\ SmallSystem \/ LargeSystem
    /\ node_names = NodeNames
    /\ services = <<>>
    /\ param_store = <<>>
    /\ packages = <<>>
    /\ log_files = <<>>
    /\ NoCall

NextGraph == RosgraphGet \/ Deliver

SpecGraph == InitGraph /\ [][NextGraph]_vars

\* the listing tools on small system states and package indexes
InitListing ==
    /\ \/ SmallSystem /\ packages = <<>>
       \/ NoSystem /\ packages \in DistinctSeqsUpTo(PackagePool, MaxPackages)
    /\ node_names = NodeNames
    /\ services = <<>>
    /\ param_store = <<>>
    /\ log_files = <<>>
    /\ NoCall

NextListing == RostopicList \/ RosnodeList \/ RospkgList \/ Deliver

SpecListing == InitListing /\ [][NextListing]_vars

\* the parameter tools on a store that starts empty
InitParam ==
    /\ NoSystem
    /\ node_names = <<>>
    /\ services = <<>>
    /\ param_store = <<>>
    /\ packages = <<>>
    /\ log_files = <<>>
    /\ NoCall

NextParam == RosparamSet \/ RosparamGet \/ RosparamList \/ Deliver

SpecParam == InitParam /\ [][NextParam]_vars

\* roslog_list on bounded log directories
InitLog ==
    /\ NoSystem
    /\ node_names = <<>>
    /\ services = <<>>
    /\ param_store = <<>>
    /\ packages = <<>>
    /\ log_files \in LogDirs
    /\ NoCall

NextLog == RoslogList \/ Deliver

SpecLog == InitLog /\ [][NextLog]_vars

\* every tool, on an empty and on a populated system
Populated ==
    /\ publishers = Entries(<<<<"/", "a", "/", "n", "1">>, <<"/", "a", "b", "/", "n", "1">>>>, <<<<"/", "a", "/", "n", "1">>>>)
    /\ subscribers = Entries(<<<<"/", "a", "/", "n", "2">>>>, <<>>)
    /\ services = <<<<"/", "a", "/", "s", "r", "v">>, <<"/", "r", "o", "s", "o", "u", "t", "/", "g", "e", "t", "_", "l", "o", "g", "g", "e", "r", "s">>, <<"/", "r", "o", "s", "a", "p", "i", "/", "t", "o", "p", "i", "c", "s">>, <<"/", "a", "/", "s", "e", "t", "_", "p", "a", "r", "a", "m">>>>
    /\ param_store = << <<<<"/", "r", "o", "s", "a", "/", "f", "o", "o">>, "1">>, <<<<"/", "r", "o", "s", "a", "b">>, "2">> >>
    /\ packages = <<<<"n", "a", "v">>, <<"s", "t", "d", "_", "m", "s", "g", "s">>>>
    /\ log_files = << <<<<"a", ".", "l", "o", "g">>, 1024>>, <<<<"b", ".", "l", "o", "g">>, 4096>> >>

Empty ==
    /\ NoSystem
    /\ services = <<>>
    /\ param_store = <<>>
    /\ packages = <<>>
    /\ log_files = <<>>

Init ==
    /\ Populated \/ Empty
    /\ node_names = NodeNames
    /\ NoCall

Next ==
    \/ RosparamGet
    \/ RosparamSet
    \/ RosparamList
    \/ RoslogList
    \/ RostopicInfo
    \/ RosnodeInfo
    \/ RosserviceList
    \/ RosserviceInfo
    \/ RosmsgInfo
    \/ RossrvInfo
    \/ RospkgList
    \/ RospkgInfo
    \/ RosgraphGet
    \/ RostopicList
    \/ RosnodeList
    \/ Deliver

Spec == Init /\ [][Next]_vars

(***************************************************************************)
(* Properties                                                              *)
(***************************************************************************)

\* a is b with some entries deleted
RECURSIVE IsSubSeq(_, _)
IsSubSeq(a, b) ==
    IF a = <<>> THEN TRUE
    ELSE IF b = <<>> THEN FALSE
    ELSE IF Head(a) = Head(b) THEN IsSubSeq(Tail(a), Tail(b))
    ELSE IsSubSeq(a, Tail(b))

\* the number of occurrences of x in a list
Count(x, list) == Cardinality({i \in 1..Len(list) : list[i] = x})

ListingReturned ==
    call.tool \in {"rostopic_list", "rosnode_list"} /\ ret.kind = "ok"

PackagesReturned == call.tool = "rospkg_list" /\ ret.kind = "ok"

GraphReturned == call.tool = "rosgraph_get" /\ ret.kind = "ok"

\* C1: the counters of rostopic_list and rosnode_list satisfy
\* total >= in_namespace >= match_pattern, and those of rospkg_list satisfy
\* total >= total - msg_pkg_count >= match_pattern.
C1_StageCountsNonIncreasing ==
    /\ ListingReturned =>
          /\ ret.total >= ret.in_namespace
          /\ ret.in_namespace >= ret.match_pattern
    /\ PackagesReturned =>
          /\ ret.total >= ret.total - ret.msg_pkg_count
          /\ ret.total - ret.msg_pkg_count >= ret.match_pattern

\* A listing in which each stage dropped something and something is left.
C1_StagesShrink ==
    /\ ListingReturned
    /\ ret.total > ret.in_namespace
    /\ ret.in_namespace > ret.match_pattern
    /\ ret.match_pattern > 0

\* C2: every triple of a returned graph has its topic as a key of both maps,
\* its publisher in the first map's list and its subscriber in the second's,
\* and with exclude_self_connections no triple joins a node to itself.
C2_TriplesComeFromBothMaps ==
    GraphReturned =>
        \A i \in 1..Len(ret.graph) :
            LET publisher == ret.graph[i][1]
                topic == ret.graph[i][2]
                subscriber == ret.graph[i][3]
            IN  /\ HasKey(locals.topic_pub_map, topic)
                /\ HasKey(locals.topic_sub_map, topic)
                /\ publisher \in Range(Lookup(locals.topic_pub_map, topic))
                /\ subscriber \in Range(Lookup(locals.topic_sub_map, topic))
                /\ call.exclude_self_connections => publisher # subscriber

\* A graph is returned after the exclusion dropped a self connection.
C2_SelfConnectionDropped ==
    /\ GraphReturned
    /\ call.exclude_self_connections
    /\ \E i \in 1..Len(locals.joined) : locals.joined[i][1] = locals.joined[i][3]

\* C3: a returned graph carries the warning exactly when it has more than 50
\* triples, and it is the whole list that passed the filters, with
\* total_connections its length.
C3_WarningAboveFiftyNoTruncation ==
    GraphReturned =>
        /\ ret.has_warning <=> Len(ret.graph) > 50
        /\ ret.graph = locals.graph
        /\ ret.total_connections = Len(ret.graph)

\* A graph of 51 triples is returned, with the warning.
C3_FiftyOneTriplesWarned ==
    GraphReturned /\ Len(ret.graph) = 51 /\ ret.has_warning

NoResultsPayload == ret.kind = "error" /\ ret.excluded = call.blacklist

\* the system of the scenario: one topic, the same node its one publisher
\* and its one subscriber
OneSelfConnectedTopic ==
    /\ Len(publishers) = 1
    /\ subscribers = publishers
    /\ Len(publishers[1][2]) = 1

\* C4: when the system-state query succeeds, rosgraph_get returns the error
\* payload naming the blacklist exactly when the list left by the filters is
\* empty; on the one-topic self-connected system with
\* exclude_self_connections it returns no success payload, and the error
\* payload whenever the patterns compile.
C4_ErrorIffNothingLeft ==
    (call.tool = "rosgraph_get" /\ ~call.fails) =>
        /\ NoResultsPayload <=> (locals.stage = "done" /\ locals.graph = <<>>)
        /\ (OneSelfConnectedTopic /\ call.exclude_self_connections) =>
              /\ ret.kind # "ok"
              /\ locals.stage = "done" => NoResultsPayload

\* The scenario: the join found the self connection, the exclusion dropped
\* it, and the error payload is returned.
C4_SelfConnectionOnlyGivesError ==
    /\ call.tool = "rosgraph_get"
    /\ OneSelfConnectedTopic
    /\ call.exclude_self_connections
    /\ locals.stage = "done"
    /\ locals.joined # <<>>
    /\ NoResultsPayload

\* C5: a listing of an empty registry is the one "none in the system"
\* string, of a namespace without entities the one namespace string, of a
\* pattern without matches the one pattern string; the three strings differ,
\* and the returned list is never empty.
C5_EmptyStagesAreExplained ==
    ListingReturned =>
        /\ ret.total = 0 => ret.names = <<NoneInSystemMsg(call.type)>>
        /\ (ret.total > 0 /\ ret.in_namespace = 0) =>
              ret.names = <<NoneInNamespaceMsg(call.type, call.namespace)>>
        /\ (ret.in_namespace > 0 /\ ret.match_pattern = 0) =>
              ret.names = <<NoneMatchingMsg(call.type)>>
        /\ NoneInSystemMsg(call.type) # NoneInNamespaceMsg(call.type, call.namespace)
        /\ NoneInSystemMsg(call.type) # NoneMatchingMsg(call.type)
        /\ NoneInNamespaceMsg(call.type, call.namespace) # NoneMatchingMsg(call.type)
        /\ ret.names # <<>>

\* What holds of the code: without a blacklist, the three empty stages are
\* explained and the returned list is never empty.
EmptyStagesAreExplainedWithoutBlacklist ==
    (ListingReturned /\ call.blacklist = <<>>) =>
        /\ ret.total = 0 => ret.names = <<NoneInSystemMsg(call.type)>>
        /\ (ret.total > 0 /\ ret.in_namespace = 0) =>
              ret.names = <<NoneInNamespaceMsg(call.type, call.namespace)>>
        /\ (ret.in_namespace > 0 /\ ret.match_pattern = 0) =>
              ret.names = <<NoneMatchingMsg(call.type)>>
        /\ ret.names # <<>>

BlacklistTools ==
    {"rostopic_list", "rosnode_list", "rosgraph_get", "rosservice_list",
     "rosparam_list", "rospkg_list", "roslog_list"}

\* the blacklist pass of the last call, applied once more
Reapplied ==
    IF call.tool = "rosgraph_get"
    THEN GraphBlacklistFilter(locals.after_blacklist, call.blacklist)
    ELSE IF call.tool = "roslog_list"
    THEN BlacklistFilter(locals.after_blacklist, call.blacklist)
    ELSE BlacklistStage(locals.after_blacklist, call.blacklist)

\* C6: the output of the blacklist pass of each tool is a sub-list of its
\* input, and the same pass leaves that output unchanged.
C6_BlacklistSubtractiveIdempotent ==
    (call.tool \in BlacklistTools /\ locals.stage = "done") =>
        /\ IsSubSeq(locals.after_blacklist, locals.before_blacklist)
        /\ Reapplied = locals.after_blacklist

\* A blacklist pass dropped some entries of a listing and kept others.
C6_PassDroppedSomeKeptSome ==
    /\ call.tool \in BlacklistTools \ {"rosgraph_get"}
    /\ locals.stage = "done"
    /\ locals.after_blacklist # <<>>
    /\ Len(locals.after_blacklist) < Len(locals.before_blacklist)

\* a node is under a namespace in the slash-delimited sense; every node is
\* under the root and under no namespace at all
UnderNamespace(node, namespace) ==
    \/ namespace = <<>>
    \/ namespace = <<"/">>
    \/ StartsWith(node, namespace \o <<"/">>)

DefaultGraphCall ==
    /\ call.tool = "rosgraph_get"
    /\ ~call.fails
    /\ call.node_pattern = DotStar
    /\ call.topic_pattern = DotStar
    /\ call.blacklist = <<>>
    /\ ~call.exclude_self_connections

ReturnedGraph == IF ret.kind = "ok" THEN ret.graph ELSE <<>>

SystemNodes == Range(NodesOf(publishers)) \cup Range(NodesOf(subscribers))

SystemTopics == Keys(publishers) \cup Keys(subscribers)

\* C10: with the default patterns, no blacklist and self connections kept,
\* the graph holds (p, t, s) once per occurrence of p among the publishers
\* of t and of s among its subscribers when both are under the namespace,
\* and not otherwise.
C10_GraphIsJoinUnderNamespace ==
    DefaultGraphCall =>
        \A p \in SystemNodes, s \in SystemNodes, t \in SystemTopics :
            Count(<<p, t, s>>, ReturnedGraph) =
                IF UnderNamespace(p, call.namespace) /\ UnderNamespace(s, call.namespace)
                THEN Count(p, NodesFor(publishers, t)) * Count(s, NodesFor(subscribers, t))
                ELSE 0

\* What holds of the code: the same join, over the nodes whose names start
\* with the namespace string.
GraphIsJoinOverNamePrefix ==
    DefaultGraphCall =>
        \A p \in SystemNodes, s \in SystemNodes, t \in SystemTopics :
            Count(<<p, t, s>>, ReturnedGraph) =
                IF StartsWith(p, call.namespace) /\ StartsWith(s, call.namespace)
                THEN Count(p, NodesFor(publishers, t)) * Count(s, NodesFor(subscribers, t))
                ELSE 0

\* C7: with is_rosa_param, rosparam_set writes to a key under "/rosa/" that
\* holds no "//"; for param "foo" the key is "/rosa/foo".
C7_RosaKeyUnderReservedPrefix ==
    (call.tool = "rosparam_set" /\ call.is_rosa_param) =>
        /\ StartsWith(locals.param, ROSA_PREFIX \o <<"/">>)
        /\ ~Contains(locals.param, <<"/", "/">>)
        /\ call.param = <<"f", "o", "o">> => locals.param = <<"/", "r", "o", "s", "a", "/", "f", "o", "o">>
        /\ ~call.fails => HasKey(param_store, locals.param)

\* What holds of the code: a relative name without "//" is written under
\* "/rosa/", and "foo" to "/rosa/foo", with the value given.
RelativeNameGoesUnderRosa ==
    (/\ call.tool = "rosparam_set"
     /\ call.is_rosa_param
     /\ Head(call.param) # "/"
     /\ ~Contains(call.param, <<"/", "/">>)) =>
        /\ locals.param = ROSA_PREFIX \o <<"/">> \o call.param
        /\ ~call.fails =>
              /\ HasKey(param_store, locals.param)
              /\ Lookup(param_store, locals.param) = call.value

\* the files the claim expects: not blacklisted and of at least min_size
ExpectedLogs ==
    {f \in Range(log_files) :
        /\ f[2] >= call.min_size
        /\ \A i \in 1..Len(call.blacklist) :
              ~RegexMatch(DotStar \o call.blacklist[i], f[1])}

LogsAsClaimed ==
    /\ ret.kind = "ok"
    /\ Range(ret.logs_with_size_in_bytes) = ExpectedLogs
    /\ Len(ret.logs_with_size_in_bytes) = Cardinality(ExpectedLogs)
    /\ \A i \in 1..(Len(ret.logs_with_size_in_bytes) - 1) :
          ret.logs_with_size_in_bytes[i][2] >= ret.logs_with_size_in_bytes[i + 1][2]

LogCallWithCompilingPatterns ==
    /\ call.tool = "roslog_list"
    /\ ~call.fails
    /\ \A i \in 1..Len(call.blacklist) : RegexValid(call.blacklist[i])

\* C8: for every directory, min_size and blacklist (the default None
\* included), roslog_list returns exactly the files that match no blacklist
\* pattern and have at least min_size bytes, with their sizes, largest first.
C8_LogsFilteredAndSorted ==
    LogCallWithCompilingPatterns => LogsAsClaimed

\* What holds of the code: the same, when the blacklist is a list.
LogsFilteredAndSortedGivenAList ==
    (LogCallWithCompilingPatterns /\ ~call.blacklist_is_none) => LogsAsClaimed

Tools ==
    {"rosgraph_get", "rostopic_list", "rosnode_list", "rostopic_info", "rosnode_info",
     "rosservice_list", "rosservice_info", "rosmsg_info", "rossrv_info",
     "rosparam_list", "rosparam_get", "rosparam_set", "rospkg_list", "rospkg_info",
     "roslog_list"}

FailureReported == ret.kind \in {"error", "failed"} /\ ret.text = CallError

\* C9: no tool raises, and a tool whose underlying call fails returns an
\* error payload or a failure string that holds the exception's text.
C9_NoToolRaises ==
    call.tool \in Tools =>
        /\ ret.kind # "raised"
        /\ call.fails => FailureReported

\* What holds of the code: the tools with a try block around the failing
\* call report the failure and do not raise on it.
GuardedToolsReportFailure ==
    /\ call.tool \in {"rostopic_list", "rosnode_list", "rosparam_list", "rosparam_set"} =>
          /\ ret.kind # "raised"
          /\ call.fails => FailureReported
    /\ (call.tool = "rosgraph_get" /\ call.fails) => FailureReported

(***************************************************************************)
(* The namespace of the graph is a slash-delimited scope.                  *)
(***************************************************************************)

NamespacedGraphCall == call.tool = "rosgraph_get" /\ call.namespace # <<>>

\* C11: with a namespace given, the publisher and the subscriber of every
\* returned triple are nodes under that namespace in the hierarchical
\* sense (the namespace, a "/", a further path); a node of a sibling
\* namespace that only shares the string prefix is in no triple.
C11_TriplesStayInsideNamespace ==
    NamespacedGraphCall =>
        \A i \in 1..Len(ReturnedGraph) :
            /\ UnderNamespace(ReturnedGraph[i][1], call.namespace)
            /\ UnderNamespace(ReturnedGraph[i][3], call.namespace)

\* What holds of the code: the names of both ends of every returned triple
\* start with the namespace string.
TriplesShareNamePrefix ==
    NamespacedGraphCall =>
        \A i \in 1..Len(ReturnedGraph) :
            /\ StartsWith(ReturnedGraph[i][1], call.namespace)
            /\ StartsWith(ReturnedGraph[i][3], call.namespace)

(***************************************************************************)
(* The filter stages taken in another order.  The stages are the ones of   *)
(* the code; a pipeline applies them in the order given, and a stage whose *)
(* pattern does not compile raises when it is run on a non-empty list.     *)
(***************************************************************************)

\* The six orders of three stages
Orders(a, b, c) ==
    {<<a, b, c>>, <<a, c, b>>, <<b, a, c>>, <<b, c, a>>, <<c, a, b>>, <<c, b, a>>}

GraphStages == <<"blacklist", "node_pattern", "self_connections">>

GraphStage(name, graph) ==
    CASE name = "blacklist" -> GraphBlacklistFilter(graph, call.blacklist)
      [] name = "node_pattern" -> NodePatternFilter(graph, call.node_pattern)
      [] OTHER -> SelfConnectionFilter(graph, call.exclude_self_connections)

GraphStageRaises(name, graph) ==
    CASE name = "blacklist" -> GraphBlacklistRaises(graph, call.blacklist)
      [] name = "node_pattern" -> NodePatternRaises(graph, call.node_pattern)
      [] OTHER -> FALSE

\* The outcome of the stages run in the given order on a list of triples:
\* the exception, the error payload of an empty list, or the list.
RECURSIVE GraphPipeline(_, _)
GraphPipeline(order, graph) ==
    IF order = <<>>
    THEN IF graph = <<>> THEN [kind |-> "error"] ELSE [kind |-> "ok", graph |-> graph]
    ELSE IF GraphStageRaises(Head(order), graph) THEN [kind |-> "raised"]
    ELSE GraphPipeline(Tail(order), GraphStage(Head(order), graph))

\* The triples of the join, before the three stages
JoinedTriples ==
    JoinMaps(BuildTopicMap(<<>>, publishers, call.namespace),
             BuildTopicMap(<<>>, subscribers, call.namespace), call.topic_pattern)

\* A call of rosgraph_get that reached the three stages
GraphStagesRun ==
    /\ call.tool = "rosgraph_get"
    /\ ~call.fails
    /\ ~JoinRaises(BuildTopicMap(<<>>, publishers, call.namespace),
                   BuildTopicMap(<<>>, subscribers, call.namespace), call.topic_pattern)

\* What rosgraph_get returned, in the terms of GraphPipeline
GraphOutcome ==
    IF ret.kind = "ok" THEN [kind |-> "ok", graph |-> ret.graph] ELSE [kind |-> ret.kind]

EntityStageNames == <<"namespace", "pattern", "blacklist">>

\* One stage of get_entities on the running state of the pipeline.  The
\* counters are taken where the code takes them, after the namespace and
\* after the pattern filter, and the explanatory string is substituted
\* where the code substitutes it: as soon as both counters are known.
EntityStage(name, st) ==
    LET raises == CASE name = "pattern" ->
                         call.pattern # <<>> /\ PatternRaises(st.entities, call.pattern)
                    [] name = "blacklist" ->
                         call.blacklist # <<>> /\ BlacklistRaises(st.entities, call.blacklist)
                    [] OTHER -> FALSE
        entities == CASE name = "namespace" -> NamespaceStage(st.entities, call.namespace)
                      [] name = "pattern" -> PatternStage(st.entities, call.pattern)
                      [] OTHER -> BlacklistStage(st.entities, call.blacklist)
        in_namespace == IF name = "namespace" THEN Len(entities) ELSE st.in_namespace
        match_pattern == IF name = "pattern" THEN Len(entities) ELSE st.match_pattern
        counted == IF name = "blacklist" THEN st.counted ELSE st.counted + 1
        substituted == counted = 2 /\ name # "blacklist"
    IN  IF raises THEN [st EXCEPT !.raised = TRUE]
        ELSE [st EXCEPT !.entities = IF substituted
                                     THEN Substitute(call.type, call.namespace, st.total,
                                                     in_namespace, match_pattern, entities)
                                     ELSE entities,
                        !.in_namespace = in_namespace,
                        !.match_pattern = match_pattern,
                        !.counted = counted]

RECURSIVE EntityFold(_, _)
EntityFold(order, st) ==
    IF order = <<>> \/ st.raised THEN st
    ELSE EntityFold(Tail(order), EntityStage(Head(order), st))

\* The list get_entities returns with its stages in the given order, or
\* the exception.
EntityPipeline(order) ==
    LET all == RegistryEntities(call.type)
        st == EntityFold(order, [entities |-> all, total |-> Len(all), in_namespace |-> 0,
                                 match_pattern |-> 0, counted |-> 0, raised |-> FALSE])
    IN  IF st.raised THEN [kind |-> "raised"]
        ELSE [kind |-> "ok", names |-> Sorted(st.entities)]

\* A call of rostopic_list or rosnode_list whose registry query succeeded
EntityStagesRun == call.tool \in {"rostopic_list", "rosnode_list"} /\ ~call.fails

\* What get_entities handed to the listing tool, in the terms of
\* EntityPipeline: the tool turns the exception into its error payload.
EntityOutcome ==
    IF ret.kind = "ok" THEN [kind |-> "ok", names |-> ret.names] ELSE [kind |-> "raised"]

\* The pipelines in the order of the code are the code.
PipelinesInCodeOrderAreTheCode ==
    /\ GraphStagesRun => GraphPipeline(GraphStages, JoinedTriples) = GraphOutcome
    /\ EntityStagesRun => EntityPipeline(EntityStageNames) = EntityOutcome

\* C12: the stages commute.  In rosgraph_get the blacklist, node-pattern
\* and self-connection stages give, in every order, the list of triples and
\* the outcome that the call gave; in get_entities the namespace, pattern
\* and blacklist stages give, in every order, the list of names returned.
C12_FilterStagesCommute ==
    /\ GraphStagesRun =>
          \A order \in Orders("blacklist", "node_pattern", "self_connections") :
              GraphPipeline(order, JoinedTriples) = GraphOutcome
    /\ EntityStagesRun =>
          \A order \in Orders("namespace", "pattern", "blacklist") :
              EntityPipeline(order) = EntityOutcome

AllPatternsCompile ==
    /\ \A i \in 1..Len(call.blacklist) : RegexValid(call.blacklist[i])
    /\ call.tool = "rosgraph_get" => RegexValid(call.node_pattern)
    /\ call.tool # "rosgraph_get" => RegexValid(call.pattern)

\* What holds of the code: when every pattern compiles, the three stages of
\* rosgraph_get commute, and the three stages of get_entities commute when
\* the call returned entity names and no explanatory string.
StagesCommuteOnNames ==
    /\ (GraphStagesRun /\ AllPatternsCompile) =>
          \A order \in Orders("blacklist", "node_pattern", "self_connections") :
              GraphPipeline(order, JoinedTriples) = GraphOutcome
    /\ (EntityStagesRun /\ AllPatternsCompile /\ ret.kind = "ok" /\ ret.match_pattern > 0
        /\ ret.names # <<>>) =>
          \A order \in Orders("namespace", "pattern", "blacklist") :
              EntityPipeline(order) = EntityOutcome

====
